---- MODULE Spec2Model ----
(***************************************************************************)
(* FileTransferInstance (src/filetransferinstance.cpp): the widget that    *)
(* tracks one file transfer.  The object's fields are the variables, each  *)
(* slot is one action, and every handler is an operator from the object    *)
(* (a record of its mutable fields plus the effects of the call) to the    *)
(* object after the call, so that a slot calling another slot is a nested  *)
(* application.                                                            *)
(*                                                                         *)
(* Strings are TLA+ strings built the way the code builds them.  Time is   *)
(* the wall clock in whole seconds (QDateTime::secsTo).  Integer widths    *)
(* (qint64, long, int) are not wrapped: every value of the model stays far *)
(* below 2^31.                                                             *)
(***************************************************************************)
EXTENDS Integers, Sequences, FiniteSets, TLC

VARIABLES
    friendId, fileNum, direction,   \* identity, const after construction
    filename,
    state, remotePaused,
    size, speed, eta,
    lastUpdate, lastBytesSent,
    savePath, pic,
    connected,      \* the connections Core::getInstance() -> this still exist
    now,            \* QDateTime::currentDateTime(), whole seconds
    call,           \* the slot last invoked from outside, with its arguments
    calls,          \* the member functions entered during that invocation
    emitted,        \* state seen by a listener at each emit stateUpdated()
    requests,       \* calls made on Core::getInstance() during the invocation
    warnings,       \* qWarning() lines written during the invocation
    prompts,        \* QFileDialog::getSaveFileName dialogs shown
    popups,         \* QMessageBox::warning popups shown
    rawspeed,       \* the local rawspeed of onFileTransferInfo, NoSpeed if not computed
    events,         \* entries, core calls, disconnects and emits of the invocation, in order
    res             \* the value returned by getHtmlImage(), NoRes for the other slots

fields == <<state, remotePaused, size, speed, eta, lastUpdate, lastBytesSent, savePath, pic>>

effects == <<call, calls, emitted, requests, warnings, prompts, popups, rawspeed, events, res>>

vars == <<friendId, fileNum, direction, filename, fields, connected, now, effects>>

----------------------------------------------------------------------------
(* Bounds of the model and the inputs drawn by the actions. *)

MaxTime == 2

MaxPrompts == 2

FriendIds == {0, 1}

FileNums == {0, 1}

Directions == {"SENDING", "RECEIVING"}

FileSizes == {1, 4000}

ByteCounts == {0, 1, 3}

ClockSteps == {-1, 1}

Paths == {"/ro/a", "/rw/b"}

WritableLocations == {"/rw/b"}

Codes == {"btnA", "btnB", "btnC"}

PreviewLimit == 1024 * 1024 * 25

\* What onFileTransferFinished can find at File.filePath.
PreviewFiles ==
    {[opens |-> FALSE, fsize |-> 100, decodes |-> TRUE],
     [opens |-> TRUE, fsize |-> 100, decodes |-> TRUE],
     [opens |-> TRUE, fsize |-> 100, decodes |-> FALSE],
     [opens |-> TRUE, fsize |-> PreviewLimit, decodes |-> TRUE],
     [opens |-> TRUE, fsize |-> PreviewLimit + 1, decodes |-> TRUE]}

NoSpeed == 0 - 1

NoRes == [form |-> "none"]

NullString == [form |-> "QString()"]

TransferStates == {"tsPending", "tsProcessing", "tsPaused", "tsCanceled", "tsFinished"}

----------------------------------------------------------------------------
(* Arithmetic and formatting helpers. *)

Min(a, b) == IF a < b THEN a ELSE b

\* C++ integer division: the quotient truncated toward zero (b # 0).
TruncDiv(a, b) ==
    LET q == (IF a < 0 THEN -a ELSE a) \div (IF b < 0 THEN -b ELSE b)
    IN  IF (a < 0) = (b < 0) THEN q ELSE -q

RECURSIVE Pow1024(_)
Pow1024(e) == IF e = 0 THEN 1 ELSE 1024 * Pow1024(e - 1)

\* A logarithm that moves to the next unit only past the power of 1024.
RECURSIVE Log1024_ExclusiveBoundary(_)
Log1024_ExclusiveBoundary(n) ==
    IF n <= 1024 THEN 0 ELSE 1 + Log1024_ExclusiveBoundary(n \div 1024)

\* (int)(log(size) / log(1024)) for size >= 1: the largest e with 1024^e <= size.
RECURSIVE Log1024(_)
Log1024(n) == IF n < 1024 THEN 0 ELSE 1 + Log1024(n \div 1024)

suffix == <<"B", "kiB", "MiB", "GiB", "TiB">>

Pad2(n) == IF n < 10 THEN "0" \o ToString(n) ELSE ToString(n)

\* QString::setNum(x, 'f', 2) of x = num/den >= 0: two decimals, rounded to
\* nearest (a tie goes to the even digit).
SetNumF2(num, den) ==
    LET q == (num * 100) \div den
        r == (num * 100) % den
        h == IF 2 * r > den \/ (2 * r = den /\ q % 2 = 1) THEN q + 1 ELSE q
    IN  ToString(h \div 100) \o "." \o Pad2(h % 100)

\* The unit index chosen for size = m * 1024^k: log(m * 1024^k) / log(1024)
\* is log(m) / log(1024) + k, capped at the last suffix; 0 for size 0.
SizeExp(m, k) ==
    IF m # 0 THEN Min(Log1024(m) + k, Len(suffix) - 1) ELSE 0

\* getHumanReadableSize of size = m * 1024^k (sizes of 2^31 bytes and more are
\* written this way): size / pow(1024, exp) is m * 1024^(k - exp).
getHumanReadableSize1024(m, k) ==
    LET exp == SizeExp(m, k)
        num == m * Pow1024(IF k > exp THEN k - exp ELSE 0)
        den == Pow1024(IF exp > k THEN exp - k ELSE 0)
    IN  SetNumF2(num, den) \o suffix[exp + 1]

getHumanReadableSize(n) == getHumanReadableSize1024(n, 0)

\* QTime(0,0).addSecs(s).toString("mm:ss"): the time of day wraps at 24 h and
\* the format shows its minute and second only.
SecsPerDay == 24 * 60 * 60

EtaString(s) ==
    LET t == s % SecsPerDay
    IN  Pad2((t \div 60) % 60) \o ":" \o Pad2(t % 60)

----------------------------------------------------------------------------
(* The object as a record, and the bookkeeping of a call. *)

This ==
    [state |-> state, remotePaused |-> remotePaused, size |-> size,
     speed |-> speed, eta |-> eta, lastUpdate |-> lastUpdate,
     lastBytesSent |-> lastBytesSent, savePath |-> savePath, pic |-> pic,
     connected |-> connected,
     calls |-> <<>>, emitted |-> <<>>, requests |-> <<>>, warnings |-> 0,
     prompts |-> 0, popups |-> 0, rawspeed |-> NoSpeed, events |-> <<>>,
     res |-> NoRes]

Apply(w) ==
    /\ state' = w.state
    /\ remotePaused' = w.remotePaused
    /\ size' = w.size
    /\ speed' = w.speed
    /\ eta' = w.eta
    /\ lastUpdate' = w.lastUpdate
    /\ lastBytesSent' = w.lastBytesSent
    /\ savePath' = w.savePath
    /\ pic' = w.pic
    /\ connected' = w.connected
    /\ calls' = w.calls
    /\ emitted' = w.emitted
    /\ requests' = w.requests
    /\ warnings' = w.warnings
    /\ prompts' = w.prompts
    /\ popups' = w.popups
    /\ rawspeed' = w.rawspeed
    /\ events' = w.events
    /\ res' = w.res
    /\ UNCHANGED <<friendId, fileNum, direction, filename, now>>

Enter(w, name) ==
    [w EXCEPT !.calls = Append(@, name), !.events = Append(@, "call " \o name)]

\* emit stateUpdated(): a listener runs synchronously and sees the state.
EmitStateUpdated(w) ==
    [w EXCEPT !.emitted = Append(@, w.state),
              !.events = Append(@, "emit " \o w.state)]

CoreCall(w, req) ==
    [w EXCEPT !.requests = Append(@, req), !.events = Append(@, "core " \o req.op)]

\* disconnect(Core::getInstance(), 0, this, 0)
Disconnect(w) == [w EXCEPT !.connected = FALSE, !.events = Append(@, "disconnect")]

\* A filter that lets a notification through as soon as one part of the
\* identity agrees.
Mismatch_AllDiffer(FriendId, FileNum, Direction) ==
    FileNum # fileNum /\ FriendId # friendId /\ Direction # direction

\* The identity filter every notification slot starts with.
Mismatch(FriendId, FileNum, Direction) ==
    FileNum # fileNum \/ FriendId # friendId \/ Direction # direction

\* A clamp that takes the size of a negative difference instead of zero.
ClampedDiff_Abs(diff) == IF diff < 0 THEN -diff ELSE diff

\* if (diff < 0) { qWarning() << ...; diff = 0; }
ClampedDiff(diff) == IF diff < 0 THEN 0 ELSE diff

\* A throughput rounded up instead of truncated.
RawSpeed_RoundUp(diff, timediff) == (diff + timediff - 1) \div timediff

\* long rawspeed = diff / timediff;
RawSpeed(diff, timediff) == TruncDiv(diff, timediff)

----------------------------------------------------------------------------
(* The notification slots (connected to the core's signals). *)

\* A progress slot that only skips a clock that went back, not one that
\* stands still.
onFileTransferInfo_AllowsSameTick(w0, FriendId, FileNum, Filesize, BytesSent, Direction) ==
    LET w == Enter(w0, "onFileTransferInfo")
        timediff == now - w.lastUpdate
        diff0 == BytesSent - w.lastBytesSent
        rs == IF timediff = 0 THEN ClampedDiff(diff0)
              ELSE RawSpeed(ClampedDiff(diff0), timediff)
        w1 == [w EXCEPT !.warnings = IF diff0 < 0 THEN @ + 1 ELSE @,
                        !.rawspeed = rs,
                        !.speed = getHumanReadableSize(rs) \o "/s",
                        !.size = getHumanReadableSize(Filesize)]
    IN  IF Mismatch(FriendId, FileNum, Direction) THEN w
        ELSE IF timediff < 0 THEN w
        ELSE IF rs = 0 THEN w1
        ELSE EmitStateUpdated([w1 EXCEPT
                 !.eta = EtaString(TruncDiv(Filesize - BytesSent, rs)),
                 !.lastUpdate = now,
                 !.lastBytesSent = BytesSent])

\* A progress slot with the state = tsProcessing assignment of line 65 enabled.
onFileTransferInfo_SetsProcessing(w0, FriendId, FileNum, Filesize, BytesSent, Direction) ==
    LET w == [Enter(w0, "onFileTransferInfo") EXCEPT !.state = "tsProcessing"]
        timediff == now - w.lastUpdate
        diff0 == BytesSent - w.lastBytesSent
        rs == RawSpeed(ClampedDiff(diff0), timediff)
        w1 == [w EXCEPT !.warnings = IF diff0 < 0 THEN @ + 1 ELSE @,
                        !.rawspeed = rs,
                        !.speed = getHumanReadableSize(rs) \o "/s",
                        !.size = getHumanReadableSize(Filesize)]
    IN  IF Mismatch(FriendId, FileNum, Direction) THEN Enter(w0, "onFileTransferInfo")
        ELSE IF timediff <= 0 THEN w
        ELSE IF rs = 0 THEN w1
        ELSE EmitStateUpdated([w1 EXCEPT
                 !.eta = EtaString(TruncDiv(Filesize - BytesSent, rs)),
                 !.lastUpdate = now,
                 !.lastBytesSent = BytesSent])

onFileTransferInfo(w0, FriendId, FileNum, Filesize, BytesSent, Direction) ==
    LET w == Enter(w0, "onFileTransferInfo")
        newtime == now
        timediff == newtime - w.lastUpdate
        diff0 == BytesSent - w.lastBytesSent
        diff == ClampedDiff(diff0)
        rs == RawSpeed(diff, timediff)
        w1 == [w EXCEPT !.warnings = IF diff0 < 0 THEN @ + 1 ELSE @,
                        !.rawspeed = rs,
                        !.speed = getHumanReadableSize(rs) \o "/s",
                        !.size = getHumanReadableSize(Filesize)]
        etaSecs == TruncDiv(Filesize - BytesSent, rs)
    IN  IF Mismatch(FriendId, FileNum, Direction) THEN w
        ELSE IF timediff <= 0 THEN w
        ELSE IF rs = 0 THEN w1
        ELSE EmitStateUpdated([w1 EXCEPT !.eta = EtaString(etaSecs),
                                         !.lastUpdate = newtime,
                                         !.lastBytesSent = BytesSent])

onFileTransferCancelled(w0, FriendId, FileNum, Direction) ==
    LET w == Enter(w0, "onFileTransferCancelled")
    IN  IF Mismatch(FriendId, FileNum, Direction) THEN w
        ELSE EmitStateUpdated([Disconnect(w) EXCEPT !.state = "tsCanceled"])

\* File carries the identity and filePath; opens, fsize and decodes are what
\* QFile::open, QFile::size and QImage::loadFromData find at File.filePath.
\* A finished slot that previews a file of any size.
onFileTransferFinished_PreviewsAnySize(w0, File, opens, fsize, decodes) ==
    LET w == Enter(w0, "onFileTransferFinished")
        w1 == Disconnect(w)
        w2 == IF File.direction = "RECEIVING" /\ opens /\ decodes
              THEN [w1 EXCEPT !.pic = "scaled:" \o File.filePath]
              ELSE w1
    IN  IF Mismatch(File.friendId, File.fileNum, File.direction) THEN w
        ELSE EmitStateUpdated([w2 EXCEPT !.state = "tsFinished"])

onFileTransferFinished(w0, File, opens, fsize, decodes) ==
    LET w == Enter(w0, "onFileTransferFinished")
        w1 == Disconnect(w)
        w2 == IF File.direction = "RECEIVING" /\ opens /\ fsize <= PreviewLimit /\ decodes
              THEN [w1 EXCEPT !.pic = "scaled:" \o File.filePath]
              ELSE w1
    IN  IF Mismatch(File.friendId, File.fileNum, File.direction) THEN w
        ELSE EmitStateUpdated([w2 EXCEPT !.state = "tsFinished"])

onFileTransferAccepted(w0, File) ==
    LET w == Enter(w0, "onFileTransferAccepted")
    IN  IF Mismatch(File.friendId, File.fileNum, File.direction) THEN w
        ELSE EmitStateUpdated([w EXCEPT !.remotePaused = FALSE,
                                        !.state = "tsProcessing"])

\* A remote-pause slot that also moves the local state.
onFileTransferRemotePausedUnpaused_AlsoPauses(w0, File, paused) ==
    LET w == Enter(w0, "onFileTransferRemotePausedUnpaused")
    IN  IF Mismatch(File.friendId, File.fileNum, File.direction) THEN w
        ELSE EmitStateUpdated([w EXCEPT !.remotePaused = paused,
                                        !.state = IF paused THEN "tsPaused" ELSE @])

onFileTransferRemotePausedUnpaused(w0, File, paused) ==
    LET w == Enter(w0, "onFileTransferRemotePausedUnpaused")
    IN  IF Mismatch(File.friendId, File.fileNum, File.direction) THEN w
        ELSE EmitStateUpdated([w EXCEPT !.remotePaused = paused])

onFileTransferPaused(w0, FriendId, FileNum, Direction) ==
    LET w == Enter(w0, "onFileTransferPaused")
    IN  IF Mismatch(FriendId, FileNum, Direction) THEN w
        ELSE EmitStateUpdated([w EXCEPT !.state = "tsPaused"])

----------------------------------------------------------------------------
(* The user's slots. *)

cancelTransfer(w0) ==
    LET w == Enter(w0, "cancelTransfer")
        w1 == CoreCall(w, [op |-> "cancelFileSend", friendId |-> friendId,
                           fileNum |-> fileNum, path |-> ""])
    IN  EmitStateUpdated([w1 EXCEPT !.state = "tsCanceled"])

\* A rejection that replays the cancellation before it tells the core.
rejectRecvRequest_CancelPathFirst(w0) ==
    LET w == Enter(w0, "rejectRecvRequest")
        w1 == onFileTransferCancelled(w, friendId, fileNum, direction)
        w2 == CoreCall(w1, [op |-> "rejectFileRecvRequest", friendId |-> friendId,
                            fileNum |-> fileNum, path |-> ""])
    IN  EmitStateUpdated([w2 EXCEPT !.state = "tsCanceled"])

rejectRecvRequest(w0) ==
    LET w == Enter(w0, "rejectRecvRequest")
        w1 == CoreCall(w, [op |-> "rejectFileRecvRequest", friendId |-> friendId,
                           fileNum |-> fileNum, path |-> ""])
        w2 == onFileTransferCancelled(w1, friendId, fileNum, direction)
    IN  EmitStateUpdated([w2 EXCEPT !.state = "tsCanceled"])

\* A probe that never fails.
isFileWritable_Always(path) == path = path

\* The probe opens the file for writing and removes it again if it did not
\* exist: its result is whether the location can be written.
isFileWritable(path) == path \in WritableLocations

\* The dialog loop.  choices are the user's answers to the successive
\* getSaveFileName dialogs; once they are used up the user cancels the
\* dialog (the empty path).  The result is the path the loop ends with.
RECURSIVE AcceptLoop(_, _, _)
AcceptLoop(w, choices, i) ==
    LET path == IF i <= Len(choices) THEN choices[i] ELSE ""
        w1 == [w EXCEPT !.prompts = @ + 1]
    IN  IF path = "" THEN [w |-> w1, path |-> path]
        ELSE IF isFileWritable(path) THEN [w |-> w1, path |-> path]
        ELSE AcceptLoop([w1 EXCEPT !.popups = @ + 1], choices, i + 1)

acceptRecvRequest(w0, choices) ==
    LET w == Enter(w0, "acceptRecvRequest")
        l == AcceptLoop(w, choices, 1)
        w1 == [l.w EXCEPT !.savePath = l.path]
        w2 == CoreCall(w1, [op |-> "acceptFileRecvRequest", friendId |-> friendId,
                            fileNum |-> fileNum, path |-> l.path])
    IN  IF l.path = "" THEN l.w
        ELSE EmitStateUpdated([w2 EXCEPT !.state = "tsProcessing"])

\* A toggle that flips the state itself instead of waiting for the core.
pauseResumeRecv_TogglesState(w0) ==
    LET w == Enter(w0, "pauseResumeRecv")
        w1 == CoreCall(w, [op |-> "pauseResumeFileRecv", friendId |-> friendId,
                           fileNum |-> fileNum, path |-> ""])
    IN  IF ~(w.state = "tsProcessing" \/ w.state = "tsPaused") THEN w
        ELSE IF w.remotePaused THEN w
        ELSE EmitStateUpdated([w1 EXCEPT !.state = IF @ = "tsProcessing"
                                                   THEN "tsPaused"
                                                   ELSE "tsProcessing"])

pauseResumeRecv(w0) ==
    LET w == Enter(w0, "pauseResumeRecv")
        w1 == CoreCall(w, [op |-> "pauseResumeFileRecv", friendId |-> friendId,
                           fileNum |-> fileNum, path |-> ""])
    IN  IF ~(w.state = "tsProcessing" \/ w.state = "tsPaused") THEN w
        ELSE IF w.remotePaused THEN w
        ELSE EmitStateUpdated(w1)

\* A toggle that forgets the remotePaused check.
pauseResumeSend_IgnoresRemotePause(w0) ==
    LET w == Enter(w0, "pauseResumeSend")
        w1 == CoreCall(w, [op |-> "pauseResumeFileSend", friendId |-> friendId,
                           fileNum |-> fileNum, path |-> ""])
    IN  IF ~(w.state = "tsProcessing" \/ w.state = "tsPaused") THEN w
        ELSE EmitStateUpdated(w1)

pauseResumeSend(w0) ==
    LET w == Enter(w0, "pauseResumeSend")
        w1 == CoreCall(w, [op |-> "pauseResumeFileSend", friendId |-> friendId,
                           fileNum |-> fileNum, path |-> ""])
    IN  IF ~(w.state = "tsProcessing" \/ w.state = "tsPaused") THEN w
        ELSE IF w.remotePaused THEN w
        ELSE EmitStateUpdated(w1)

\* A dispatch whose second button always toggles the pause of a receiver.
pressFromHtml_NeverAccepts(w0, code, choices) ==
    LET w == Enter(w0, "pressFromHtml")
    IN  IF w.state = "tsFinished" \/ w.state = "tsCanceled" THEN w
        ELSE IF direction = "SENDING"
        THEN IF code = "btnA" THEN cancelTransfer(w)
             ELSE IF code = "btnB" THEN pauseResumeSend(w)
             ELSE w
        ELSE IF code = "btnA" THEN rejectRecvRequest(w)
             ELSE IF code = "btnB" THEN pauseResumeRecv(w)
             ELSE w

pressFromHtml(w0, code, choices) ==
    LET w == Enter(w0, "pressFromHtml")
    IN  IF w.state = "tsFinished" \/ w.state = "tsCanceled" THEN w
        ELSE IF direction = "SENDING"
        THEN IF code = "btnA" THEN cancelTransfer(w)
             ELSE IF code = "btnB" THEN pauseResumeSend(w)
             ELSE w
        ELSE IF code = "btnA" THEN rejectRecvRequest(w)
             ELSE IF code = "btnB"
             THEN IF w.state = "tsPending" THEN acceptRecvRequest(w, choices)
                  ELSE pauseResumeRecv(w)
             ELSE w

----------------------------------------------------------------------------
(* The renderer. *)

drawButtonlessForm(w, type) ==
    [form |-> "drawButtonlessForm", type |-> type,
     imgA |-> IF type = "red" THEN "emptyLRedFileButton.png"
              ELSE "emptyLGreenFileButton.png",
     imgB |-> IF type = "red" THEN "emptyRRedFileButton.png"
              ELSE "emptyRGreenFileButton.png",
     content |-> "<p>" \o filename \o "</p><p>" \o w.size \o "</p>"]

draw2ButtonsForm(w, type, imgA, imgB) ==
    [form |-> "draw2ButtonsForm", type |-> type, imgA |-> imgA, imgB |-> imgB,
     content |-> "<p>" \o filename \o "</p><p>"
                 \o getHumanReadableSize(w.lastBytesSent) \o " / " \o w.size
                 \o "&nbsp;(" \o w.speed \o " ETA: " \o w.eta \o ")</p>\n"]

\* A renderer without the remotePaused override of the right button.
getHtmlImage_NoRemoteOverride(w0) ==
    LET w == Enter(w0, "getHtmlImage")
        rightBtnImg == IF w.state = "tsProcessing" THEN "pauseFileButton.png"
                       ELSE IF w.state = "tsPaused" THEN "resumeFileButton.png"
                       ELSE IF direction = "SENDING" THEN "pauseGreyFileButton.png"
                       ELSE "acceptFileButton.png"
        html == IF w.state = "tsPending" \/ w.state = "tsProcessing" \/ w.state = "tsPaused"
                THEN draw2ButtonsForm(w, "silver", "stopFileButton.png", rightBtnImg)
                ELSE IF w.state = "tsCanceled" THEN drawButtonlessForm(w, "red")
                ELSE IF w.state = "tsFinished" THEN drawButtonlessForm(w, "green")
                ELSE NullString
    IN  [w EXCEPT !.res = html]

getHtmlImage(w0) ==
    LET w == Enter(w0, "getHtmlImage")
        leftBtnImg == "stopFileButton.png"
        byState == IF w.state = "tsProcessing" THEN "pauseFileButton.png"
                   ELSE IF w.state = "tsPaused" THEN "resumeFileButton.png"
                   ELSE IF direction = "SENDING" THEN "pauseGreyFileButton.png"
                   ELSE "acceptFileButton.png"
        rightBtnImg == IF w.remotePaused THEN "pauseGreyFileButton.png" ELSE byState
        html == IF w.state = "tsPending" \/ w.state = "tsProcessing" \/ w.state = "tsPaused"
                THEN draw2ButtonsForm(w, "silver", leftBtnImg, rightBtnImg)
                ELSE IF w.state = "tsCanceled" THEN drawButtonlessForm(w, "red")
                ELSE IF w.state = "tsFinished" THEN drawButtonlessForm(w, "green")
                ELSE NullString
    IN  [w EXCEPT !.res = html]

----------------------------------------------------------------------------
(* The state machine. *)

ToxFiles == [friendId : FriendIds, fileNum : FileNums, direction : Directions,
             filePath : {"/rw/b"}]

\* The answers a user can give to the successive save dialogs: at most
\* MaxPrompts paths, none after the first one that the loop accepts.
DialogRuns ==
    {c \in UNION {[1..n -> Paths] : n \in 0..MaxPrompts} :
        \A i \in 1..Len(c) : i < Len(c) => c[i] \notin WritableLocations}

\* Whether a notification carries the identity of this transfer.
Same(f, n, d) == <<f, n, d>> = <<friendId, fileNum, direction>>

\* FileTransferInstance(ToxFile File), constructed at time 0.  The handlers
\* only compare the identity for equality, so one value of File.friendId
\* and File.fileNum stands for all; the notifications range over every
\* identity.
\* File sizes m * 1024^k handed to the constructor, from 0 bytes to beyond
\* 1024^5 bytes, on both sides of every power of 1024 up to 1024^5.
Mantissas == {0, 1, 2, 1023, 1024, 1025, 1536, 2047, 1048575, 1048576, 1048577}
SizeExps == 0..5
Filesizes1024 ==
    {f \in Mantissas \X SizeExps :
        /\ f[1] = 0 => f[2] = 0
        /\ f[1] < 2048 \/ f[2] <= 3}

Init ==
    /\ friendId = 1
    /\ fileNum = 0
    /\ direction \in Directions
    /\ filename = "a.png"
    /\ state = "tsPending"
    /\ remotePaused = FALSE
    /\ \E filesize \in FileSizes : size = getHumanReadableSize(filesize)
    /\ speed = "0B/s"
    /\ eta = "00:00"
    /\ now = 0
    /\ lastUpdate = now
    /\ lastBytesSent = 0
    /\ savePath = ""
    /\ pic \in (IF direction = "SENDING" THEN {"null", "scaled:File.file"} ELSE {"null"})
    /\ connected = TRUE
    /\ call = [name |-> "FileTransferInstance"]
    /\ calls = <<>>
    /\ emitted = <<>>
    /\ requests = <<>>
    /\ warnings = 0
    /\ prompts = 0
    /\ popups = 0
    /\ rawspeed = NoSpeed
    /\ events = <<>>
    /\ res = NoRes

\* The wall clock moves (forward, or back when the system time is set back).
ClockChange ==
    /\ \E d \in ClockSteps :
         /\ now + d \in 0..MaxTime
         /\ now' = now + d
    /\ UNCHANGED <<friendId, fileNum, direction, filename, fields, connected, effects>>

Core_fileTransferInfo ==
    /\ connected
    /\ \E f \in FriendIds, n \in FileNums, d \in Directions,
          Filesize \in FileSizes, BytesSent \in ByteCounts :
         /\ call' = [name |-> "onFileTransferInfo", same |-> Same(f, n, d),
                     Filesize |-> Filesize, BytesSent |-> BytesSent]
         /\ Apply(onFileTransferInfo(This, f, n, Filesize, BytesSent, d))

Core_fileTransferCancelled ==
    /\ connected
    /\ \E f \in FriendIds, n \in FileNums, d \in Directions :
         /\ call' = [name |-> "onFileTransferCancelled", same |-> Same(f, n, d)]
         /\ Apply(onFileTransferCancelled(This, f, n, d))

Core_fileTransferFinished ==
    /\ connected
    /\ \E File \in ToxFiles, pf \in PreviewFiles :
         /\ call' = [name |-> "onFileTransferFinished",
                     same |-> Same(File.friendId, File.fileNum, File.direction),
                     file |-> pf]
         /\ Apply(onFileTransferFinished(This, File, pf.opens, pf.fsize, pf.decodes))

Core_fileTransferAccepted ==
    /\ connected
    /\ \E File \in ToxFiles :
         /\ call' = [name |-> "onFileTransferAccepted",
                     same |-> Same(File.friendId, File.fileNum, File.direction)]
         /\ Apply(onFileTransferAccepted(This, File))

Core_fileTransferRemotePausedUnpaused ==
    /\ connected
    /\ \E File \in ToxFiles, paused \in BOOLEAN :
         /\ call' = [name |-> "onFileTransferRemotePausedUnpaused",
                     same |-> Same(File.friendId, File.fileNum, File.direction),
                     paused |-> paused]
         /\ Apply(onFileTransferRemotePausedUnpaused(This, File, paused))

Core_fileTransferPaused ==
    /\ connected
    /\ \E f \in FriendIds, n \in FileNums, d \in Directions :
         /\ call' = [name |-> "onFileTransferPaused", same |-> Same(f, n, d)]
         /\ Apply(onFileTransferPaused(This, f, n, d))

User_cancelTransfer ==
    /\ call' = [name |-> "cancelTransfer"]
    /\ Apply(cancelTransfer(This))

User_rejectRecvRequest ==
    /\ call' = [name |-> "rejectRecvRequest"]
    /\ Apply(rejectRecvRequest(This))

User_acceptRecvRequest ==
    \E choices \in DialogRuns :
        /\ call' = [name |-> "acceptRecvRequest", choices |-> choices]
        /\ Apply(acceptRecvRequest(This, choices))

User_pauseResumeRecv ==
    /\ call' = [name |-> "pauseResumeRecv"]
    /\ Apply(pauseResumeRecv(This))

User_pauseResumeSend ==
    /\ call' = [name |-> "pauseResumeSend"]
    /\ Apply(pauseResumeSend(This))

User_pressFromHtml ==
    \E code \in Codes :
      \E choices \in (IF code = "btnB" THEN DialogRuns ELSE {<<>>}) :
        /\ call' = [name |-> "pressFromHtml", code |-> code]
        /\ Apply(pressFromHtml(This, code, choices))

View_getHtmlImage ==
    /\ call' = [name |-> "getHtmlImage"]
    /\ Apply(getHtmlImage(This))

\* The constructor, run on a file of any of the sizes above.
Construct ==
    \E f \in Filesizes1024, d \in Directions :
        /\ direction' = d
        /\ state' = "tsPending"
        /\ remotePaused' = FALSE
        /\ size' = getHumanReadableSize1024(f[1], f[2])
        /\ speed' = "0B/s"
        /\ eta' = "00:00"
        /\ lastUpdate' = now
        /\ lastBytesSent' = 0
        /\ savePath' = ""
        /\ pic' \in (IF d = "SENDING" THEN {"null", "scaled:File.file"} ELSE {"null"})
        /\ connected' = TRUE
        /\ call' = [name |-> "FileTransferInstance", filesize |-> f]
        /\ calls' = <<>>
        /\ emitted' = <<>>
        /\ requests' = <<>>
        /\ warnings' = 0
        /\ prompts' = 0
        /\ popups' = 0
        /\ rawspeed' = NoSpeed
        /\ events' = <<>>
        /\ res' = NoRes
        /\ UNCHANGED <<friendId, fileNum, filename, now>>

Next ==
    \/ ClockChange
    \/ Core_fileTransferInfo
    \/ Core_fileTransferCancelled
    \/ Core_fileTransferFinished
    \/ Core_fileTransferAccepted
    \/ Core_fileTransferRemotePausedUnpaused
    \/ Core_fileTransferPaused
    \/ User_cancelTransfer
    \/ User_rejectRecvRequest
    \/ User_acceptRecvRequest
    \/ User_pauseResumeRecv
    \/ User_pauseResumeSend
    \/ User_pressFromHtml
    \/ View_getHtmlImage

Spec == Init /\ [][Next]_vars

\* Records constructed over files of every size.
SizeSpec == Init /\ [][Construct]_vars

----------------------------------------------------------------------------
(* The properties. *)

Terminal == {"tsCanceled", "tsFinished"}

NotificationSlots ==
    {"onFileTransferInfo", "onFileTransferCancelled", "onFileTransferFinished",
     "onFileTransferAccepted", "onFileTransferRemotePausedUnpaused",
     "onFileTransferPaused"}

\* The step is an invocation of slot n from outside (every slot leaves the
\* clock alone, and the clock never stands still when it changes).
Invoked(n) == now' = now /\ call'.name = n

\* The step is a notification from the core.
Notified == now' = now /\ call'.name \in NotificationSlots

\* The function the step's invocation entered last.
LastEntered == IF calls' = <<>> THEN "" ELSE calls'[Len(calls')]

\* C1: once state is CANCELED or FINISHED, no later notification from the
\* core changes any field of the record, whichever operation made the state
\* terminal.
C1_TerminalIsFrozen ==
    [][(state \in Terminal /\ Notified) => UNCHANGED fields]_vars

\* C2: in every reachable state, a record whose state is CANCELED or
\* FINISHED is detached from the core's notifications.
C2_TerminalIsDetached == state \in Terminal => ~connected

\* C3: a notification of any of the six kinds whose identity differs from the
\* record's changes no field, does not detach the widget and emits no change
\* notification, whatever its payload and the current state.
C3_MismatchIsNoOp ==
    [][(Notified /\ ~call'.same) =>
          /\ UNCHANGED fields
          /\ connected' = connected
          /\ emitted' = <<>>]_vars

C3_Witness ==
    /\ call.name = "onFileTransferFinished"
    /\ ~call.same
    /\ call.file.opens /\ call.file.decodes
    /\ state = "tsPaused"
    /\ remotePaused
    /\ connected

\* C4: a matching progress notification with elapsed time > 0 and zero
\* throughput updates the size and speed strings, keeps eta, sets
\* lastUpdate and lastBytesSent to the new baseline and emits one change
\* notification.
C4_ZeroThroughputStillUpdates ==
    [][(/\ Invoked("onFileTransferInfo")
        /\ call'.same
        /\ now - lastUpdate > 0
        /\ rawspeed' = 0) =>
          /\ size' = getHumanReadableSize(call'.Filesize)
          /\ speed' = "0.00B/s"
          /\ eta' = eta
          /\ lastUpdate' = now
          /\ lastBytesSent' = call'.BytesSent
          /\ Len(emitted') = 1]_vars

\* C5: pauseResumeRecv and pauseResumeSend do nothing (no request, no change
\* notification, no field change) unless state is PROCESSING or PAUSED and
\* remotePaused is false; then they send exactly one toggle request and emit
\* a change notification; in both cases state and remotePaused stay as they
\* were.
C5_PauseToggle ==
    [][(now' = now /\ LastEntered \in {"pauseResumeRecv", "pauseResumeSend"}) =>
          /\ state' = state
          /\ remotePaused' = remotePaused
          /\ IF state \in {"tsProcessing", "tsPaused"} /\ ~remotePaused
             THEN /\ requests' =
                       <<[op |-> IF LastEntered = "pauseResumeRecv"
                                 THEN "pauseResumeFileRecv"
                                 ELSE "pauseResumeFileSend",
                          friendId |-> friendId, fileNum |-> fileNum, path |-> ""]>>
                  /\ Len(emitted') = 1
             ELSE /\ requests' = <<>>
                  /\ emitted' = <<>>
                  /\ UNCHANGED fields]_vars

C5_Witness ==
    /\ call.name = "pauseResumeSend"
    /\ state = "tsPaused"
    /\ ~remotePaused
    /\ Len(requests) = 1
    /\ requests[1].op = "pauseResumeFileSend"
    /\ emitted = <<"tsPaused">>

\* The paths of a dialog run that fail the write probe.
Refused(c) == {i \in 1..Len(c) : c[i] \notin WritableLocations}

\* C6: acceptRecvRequest on a PENDING receiving record: every chosen path that
\* is not writable brings a warning and a new prompt; if the user ends by
\* cancelling the dialog nothing changes, nothing is requested and nothing is
\* emitted; a writable path is sent to the core in exactly one acceptance
\* request, becomes savePath, moves state to PROCESSING and is followed by
\* exactly one change notification.
C6_AcceptReceive ==
    [][(/\ Invoked("acceptRecvRequest")
        /\ state = "tsPending"
        /\ direction = "RECEIVING") =>
          LET c == call'.choices
              n == Len(c)
          IN  /\ popups' = Cardinality(Refused(c))
              /\ prompts' = Cardinality(Refused(c)) + 1
              /\ IF n > 0 /\ c[n] \in WritableLocations
                 THEN /\ requests' = <<[op |-> "acceptFileRecvRequest",
                                        friendId |-> friendId, fileNum |-> fileNum,
                                        path |-> c[n]]>>
                      /\ savePath' = c[n]
                      /\ state' = "tsProcessing"
                      /\ emitted' = <<"tsProcessing">>
                 ELSE /\ UNCHANGED fields
                      /\ requests' = <<>>
                      /\ emitted' = <<>>]_vars

C6_Witness ==
    /\ call.name = "acceptRecvRequest"
    /\ call.choices = <<"/ro/a", "/rw/b">>
    /\ direction = "RECEIVING"
    /\ popups = 1
    /\ prompts = 2
    /\ savePath = "/rw/b"
    /\ state = "tsProcessing"
    /\ emitted = <<"tsProcessing">>

\* C7: pressFromHtml does nothing in a terminal state; otherwise btnA cancels
\* (cancelTransfer for a sender, rejectRecvRequest for a receiver), btnB is
\* acceptRecvRequest for a receiver still PENDING, pauseResumeRecv for a
\* receiver in another state and pauseResumeSend for a sender (a no-op while
\* the sender is PENDING); any other code does nothing.
C7_ClickDispatch ==
    [][Invoked("pressFromHtml") =>
          LET code == call'.code
              nothing == /\ calls' = <<"pressFromHtml">>
                         /\ UNCHANGED fields
                         /\ connected' = connected
                         /\ requests' = <<>>
                         /\ emitted' = <<>>
              target(f) == Len(calls') >= 2 /\ calls'[1] = "pressFromHtml" /\ calls'[2] = f
          IN  IF state \in Terminal THEN nothing
              ELSE IF code = "btnA"
                   THEN IF direction = "SENDING"
                        THEN target("cancelTransfer") /\ state' = "tsCanceled"
                        ELSE target("rejectRecvRequest") /\ state' = "tsCanceled"
              ELSE IF code = "btnB"
                   THEN IF direction = "RECEIVING"
                        THEN IF state = "tsPending"
                             THEN target("acceptRecvRequest")
                             ELSE target("pauseResumeRecv")
                        ELSE /\ target("pauseResumeSend")
                             /\ state = "tsPending" =>
                                  /\ UNCHANGED fields
                                  /\ requests' = <<>>
                                  /\ emitted' = <<>>
              ELSE nothing]_vars

C7_Witness ==
    /\ call.name = "pressFromHtml"
    /\ call.code = "btnB"
    /\ direction = "RECEIVING"
    /\ calls = <<"pressFromHtml", "acceptRecvRequest">>
    /\ state = "tsProcessing"
    /\ Len(requests) = 1

\* C8: the rendering is the two-button form for PENDING, PROCESSING and
\* PAUSED, its left control always stop and its right control pause if
\* PROCESSING, resume if PAUSED, accept if PENDING and RECEIVING, greyed pause
\* if PENDING and SENDING, but always the greyed pause when remotePaused; the
\* buttonless red form for CANCELED and the buttonless green form for
\* FINISHED; never the empty string.
C8_RenderSelection ==
    call.name = "getHtmlImage" =>
        /\ res # NullString
        /\ res # NoRes
        /\ state \in {"tsPending", "tsProcessing", "tsPaused"} =>
              /\ res.form = "draw2ButtonsForm"
              /\ res.imgA = "stopFileButton.png"
              /\ res.imgB =
                    IF remotePaused THEN "pauseGreyFileButton.png"
                    ELSE CASE state = "tsProcessing" -> "pauseFileButton.png"
                           [] state = "tsPaused" -> "resumeFileButton.png"
                           [] state = "tsPending" /\ direction = "RECEIVING" ->
                                "acceptFileButton.png"
                           [] state = "tsPending" /\ direction = "SENDING" ->
                                "pauseGreyFileButton.png"
        /\ state = "tsCanceled" =>
              res.form = "drawButtonlessForm" /\ res.type = "red"
        /\ state = "tsFinished" =>
              res.form = "drawButtonlessForm" /\ res.type = "green"

C8_Witness ==
    /\ call.name = "getHtmlImage"
    /\ state = "tsPaused"
    /\ remotePaused
    /\ res.form = "draw2ButtonsForm"
    /\ res.imgB = "pauseGreyFileButton.png"

\* A matching progress notification that gets past the elapsed-time check,
\* with the transferred bytes not below the stored baseline.
ProgressInOrder ==
    /\ Invoked("onFileTransferInfo")
    /\ call'.same
    /\ now - lastUpdate > 0
    /\ lastBytesSent >= 0
    /\ call'.BytesSent >= lastBytesSent

\* C9 as claimed: the throughput is (bytesTransferred2 - bytesTransferred1)/t
\* exactly.
C9_ThroughputExact ==
    [][ProgressInOrder =>
          rawspeed' * (now - lastUpdate) = call'.BytesSent - lastBytesSent]_vars

\* C9 as amended: the throughput is the whole number of bytes per second in
\* (bytesTransferred2 - bytesTransferred1)/t, the fraction dropped, and that
\* number is what the speed string shows and the ETA is computed from.
C9_ThroughputTruncated ==
    [][ProgressInOrder =>
          LET t == now - lastUpdate
              d == call'.BytesSent - lastBytesSent
          IN  /\ rawspeed' * t <= d
              /\ d < (rawspeed' + 1) * t
              /\ speed' = getHumanReadableSize(rawspeed') \o "/s"
              /\ rawspeed' # 0 =>
                    eta' = EtaString(TruncDiv(call'.Filesize - call'.BytesSent,
                                              rawspeed'))]_vars

C9_Witness ==
    /\ call.name = "onFileTransferInfo"
    /\ call.same
    /\ call.BytesSent = 3
    /\ rawspeed = 1
    /\ lastUpdate = 2
    /\ lastBytesSent = 3
    /\ speed = "1.00B/s"

\* C10: a matching progress notification with elapsed time > 0 whose
\* bytesTransferred is below the stored lastBytesSent computes throughput 0,
\* records one warning and returns without changing state.
C10_OutOfOrderClamped ==
    [][(/\ Invoked("onFileTransferInfo")
        /\ call'.same
        /\ now - lastUpdate > 0
        /\ call'.BytesSent < lastBytesSent) =>
          /\ rawspeed' = 0
          /\ speed' = "0.00B/s"
          /\ warnings' = 1
          /\ state' = state
          /\ remotePaused' = remotePaused
          /\ connected' = connected]_vars

C10_Witness ==
    /\ call.name = "onFileTransferInfo"
    /\ call.same
    /\ call.BytesSent < lastBytesSent
    /\ warnings = 1
    /\ rawspeed = 0
    /\ speed = "0.00B/s"

\* C11: a matching progress notification that arrives when the whole seconds
\* elapsed since lastUpdate are zero or negative changes no field and emits
\* no change notification.
C11_NoElapsedTimeIsNoOp ==
    [][(/\ Invoked("onFileTransferInfo")
        /\ call'.same
        /\ now - lastUpdate <= 0) =>
          /\ UNCHANGED fields
          /\ emitted' = <<>>
          /\ warnings' = 0
          /\ rawspeed' = NoSpeed]_vars

\* The clock was set back below lastUpdate and a matching progress
\* notification with new bytes came in.
C11_Witness ==
    /\ call.name = "onFileTransferInfo"
    /\ call.same
    /\ now < lastUpdate
    /\ call.BytesSent > lastBytesSent
    /\ calls = <<"onFileTransferInfo">>
    /\ emitted = <<>>

\* C12 as claimed: from state PAUSED no operation of the widget, notification
\* or user action, moves state to PROCESSING.
C12_NoWayBackToProcessing ==
    [][state = "tsPaused" => state' # "tsProcessing"]_vars

\* C12 as amended: from state PAUSED the resume action only forwards one
\* request to the core and leaves state PAUSED; state moves from PAUSED to
\* PROCESSING only by a matching accepted notification or by
\* acceptRecvRequest ending with a writable path.
C12_ResumeOnlyThroughCore ==
    [][state = "tsPaused" =>
          /\ state' = "tsProcessing" =>
                \/ Invoked("onFileTransferAccepted") /\ call'.same
                \/ /\ now' = now
                   /\ LastEntered = "acceptRecvRequest"
                   /\ Len(requests') = 1
                   /\ requests'[1].op = "acceptFileRecvRequest"
          /\ (now' = now /\ LastEntered \in {"pauseResumeRecv", "pauseResumeSend"}) =>
                /\ state' = "tsPaused"
                /\ ~remotePaused => Len(requests') = 1]_vars

\* The resume button of a paused receiver was pressed.
C12_Witness ==
    /\ call.name = "pressFromHtml"
    /\ call.code = "btnB"
    /\ calls = <<"pressFromHtml", "pauseResumeRecv">>
    /\ state = "tsPaused"
    /\ Len(requests) = 1
    /\ requests[1].op = "pauseResumeFileRecv"

\* What a matching remote-pause notification does: remotePaused becomes the
\* payload and state stays.
RemotePauseSetsFlagOnly ==
    (Invoked("onFileTransferRemotePausedUnpaused") /\ call'.same) =>
        /\ remotePaused' = call'.paused
        /\ state' = state

\* C13 as claimed: the remote-pause notification sets remotePaused to its
\* payload and leaves state unchanged, and no other operation changes
\* remotePaused after construction.
C13_OnlyRemotePauseNotification ==
    [][/\ RemotePauseSetsFlagOnly
       /\ remotePaused' # remotePaused =>
             Invoked("onFileTransferRemotePausedUnpaused") /\ call'.same]_vars

\* C13 as amended: the remote-pause notification sets remotePaused to its
\* payload and leaves state unchanged; the only other operation that changes
\* remotePaused is a matching accepted notification, which clears it.
C13_RemotePauseOrAccepted ==
    [][/\ RemotePauseSetsFlagOnly
       /\ remotePaused' # remotePaused =>
             \/ Invoked("onFileTransferRemotePausedUnpaused") /\ call'.same
             \/ /\ Invoked("onFileTransferAccepted")
                /\ call'.same
                /\ remotePaused' = FALSE]_vars

C13_Witness ==
    /\ call.name = "onFileTransferRemotePausedUnpaused"
    /\ call.same
    /\ call.paused
    /\ remotePaused
    /\ state = "tsProcessing"
    /\ emitted = <<"tsProcessing">>

\* C14: state PAUSED is entered only from PROCESSING and only by the core's
\* matching paused notification; in particular a paused notification that
\* arrives while state is PENDING does not move the record to PAUSED.
C14_PausedOnlyFromProcessing ==
    [][(state # "tsPaused" /\ state' = "tsPaused") =>
          /\ state = "tsProcessing"
          /\ Invoked("onFileTransferPaused")
          /\ call'.same]_vars

\* The place of the first event e in the events of the step's invocation,
\* 0 if it did not happen.
At(e) ==
    IF \E i \in 1..Len(events') : events'[i] = e
    THEN CHOOSE i \in 1..Len(events') :
            events'[i] = e /\ \A j \in 1..(i - 1) : events'[j] # e
    ELSE 0

\* C15: rejectRecvRequest first sends exactly one rejection request to the
\* core, then runs onFileTransferCancelled with the record's own identity,
\* which detaches the widget, and returns with state CANCELED and the widget
\* detached; every change notification is emitted with state already
\* CANCELED.
C15_RejectThenCancelPath ==
    [][(now' = now /\ At("call rejectRecvRequest") > 0) =>
          /\ requests' = <<[op |-> "rejectFileRecvRequest", friendId |-> friendId,
                            fileNum |-> fileNum, path |-> ""]>>
          /\ At("call rejectRecvRequest") < At("core rejectFileRecvRequest")
          /\ At("core rejectFileRecvRequest") < At("call onFileTransferCancelled")
          /\ At("call onFileTransferCancelled") < At("disconnect")
          /\ state' = "tsCanceled"
          /\ ~connected'
          /\ emitted' # <<>>
          /\ \A i \in 1..Len(emitted') : emitted'[i] = "tsCanceled"
          /\ \A i \in 1..Len(events') :
                events'[i] = "emit tsCanceled" => i > At("disconnect")]_vars

C15_Witness ==
    /\ call.name = "rejectRecvRequest"
    /\ events = <<"call rejectRecvRequest", "core rejectFileRecvRequest",
                  "call onFileTransferCancelled", "disconnect",
                  "emit tsCanceled", "emit tsCanceled">>
    /\ state = "tsCanceled"
    /\ ~connected
    /\ direction = "RECEIVING"

\* C16: a matching finished notification always ends with state FINISHED, the
\* widget detached and one change notification emitted; a receiving record
\* gets the preview only if the saved file opens, is at most 25 MiB and
\* decodes as an image, and otherwise keeps the preview it had; a sending
\* record keeps its preview.
C16_FinishedWhateverThePreview ==
    [][(Invoked("onFileTransferFinished") /\ call'.same) =>
          LET f == call'.file
              previewable == /\ direction = "RECEIVING"
                             /\ f.opens
                             /\ f.fsize <= 26214400
                             /\ f.decodes
          IN  /\ state' = "tsFinished"
              /\ ~connected'
              /\ emitted' = <<"tsFinished">>
              /\ previewable => pic' # pic /\ pic' # "null"
              /\ ~previewable => pic' = pic
              /\ UNCHANGED <<remotePaused, size, speed, eta, lastUpdate,
                             lastBytesSent, savePath>>]_vars

\* A receiver finished with a file one byte over the limit: no preview.
C16_Witness ==
    /\ call.name = "onFileTransferFinished"
    /\ call.same
    /\ direction = "RECEIVING"
    /\ call.file.opens /\ call.file.decodes
    /\ call.file.fsize = 26214401
    /\ pic = "null"
    /\ state = "tsFinished"
    /\ ~connected
    /\ emitted = <<"tsFinished">>

\* C17: when a progress notification yields a non-zero throughput and
\* bytesTransferred <= totalSize, eta shows the remaining
\* s = (totalSize - bytesTransferred) / throughput seconds as mm:ss with
\* s = 60 * mm + ss and 0 <= ss < 60, for every s >= 0.
C17_EtaEncodesRemainingSeconds ==
    [][(/\ Invoked("onFileTransferInfo")
        /\ call'.same
        /\ rawspeed' > 0
        /\ call'.BytesSent <= call'.Filesize) =>
          LET s == (call'.Filesize - call'.BytesSent) \div rawspeed'
          IN  \E mm \in 0..(s \div 60), ss \in 0..59 :
                 /\ s = 60 * mm + ss
                 /\ eta' = Pad2(mm) \o ":" \o Pad2(ss)]_vars

\* 1024^j <= m, by j divisions.
RECURSIVE AtLeastPow1024(_, _)
AtLeastPow1024(m, j) ==
    IF j = 0 THEN m >= 1 ELSE AtLeastPow1024(m \div 1024, j - 1)

\* 1024^e <= m * 1024^k.
Reaches(f, e) ==
    IF e <= f[2] THEN f[1] >= 1 ELSE AtLeastPow1024(f[1], e - f[2])

\* The unit the claim prescribes for a size: the largest e in B..TiB with
\* 1024^e <= n, and B for n = 0.
UnitOf(f) ==
    IF f[1] = 0 THEN 0
    ELSE CHOOSE e \in 0..4 :
            /\ Reaches(f, e)
            /\ \A e2 \in 0..4 : Reaches(f, e2) => e2 <= e

\* C18: the size of a constructed record carries, for every file size n >= 0,
\* the unit B, kiB, MiB, GiB or TiB of the largest index e with 1024^e <= n
\* (TiB at most, B for n = 0), so that n / 1024^e lies in [1, 1024) when
\* 1 <= n < 1024^5; 0 -> B, 1023 -> B, 1024 -> kiB, 1536 -> kiB, 1048576 -> MiB.
C18_UnitIsLargestPower ==
    (call.name = "FileTransferInstance" /\ "filesize" \in DOMAIN call) =>
        LET f == call.filesize
            e == UnitOf(f)
            num == f[1] * Pow1024(IF f[2] > e THEN f[2] - e ELSE 0)
            den == Pow1024(IF e > f[2] THEN e - f[2] ELSE 0)
        IN  /\ size = SetNumF2(num, den) \o <<"B", "kiB", "MiB", "GiB", "TiB">>[e + 1]
            /\ (f[1] >= 1 /\ ~Reaches(f, 5)) => (den <= num /\ num < 1024 * den)
            /\ f = <<0, 0>> => size = "0.00B"
            /\ f = <<1023, 0>> => size = "1023.00B"
            /\ f = <<1024, 0>> => size = "1.00kiB"
            /\ f = <<1536, 0>> => size = "1.50kiB"
            /\ f = <<1048576, 0>> => size = "1.00MiB"
            /\ f = <<1, 5>> => size = "1024.00TiB"

C18_Witness ==
    /\ call.name = "FileTransferInstance"
    /\ "filesize" \in DOMAIN call
    /\ call.filesize = <<1025, 4>>
    /\ size = "1025.00TiB"

\* C19: a progress notification never changes state or remotePaused, so a
\* PENDING record stays PENDING through progress notifications; state becomes
\* PROCESSING only by a matching accepted notification or by an
\* acceptRecvRequest that found a writable path and sent its request.
C19_ProgressLeavesStateAlone ==
    [][/\ Invoked("onFileTransferInfo") =>
              /\ state' = state
              /\ remotePaused' = remotePaused
       /\ (state # "tsProcessing" /\ state' = "tsProcessing") =>
              \/ Invoked("onFileTransferAccepted") /\ call'.same
              \/ /\ now' = now
                 /\ LastEntered = "acceptRecvRequest"
                 /\ savePath' \in WritableLocations
                 /\ Len(requests') = 1
                 /\ requests'[1].op = "acceptFileRecvRequest"]_vars

\* A pending record took a progress notification in full and is still pending.
C19_Witness ==
    /\ state = "tsPending"
    /\ call.name = "onFileTransferInfo"
    /\ call.same
    /\ emitted = <<"tsPending">>
    /\ lastBytesSent = 3

====
